---- MODULE Spec2Model ----
(***************************************************************************)
(* Model of backend/main.py: the credential store, the token service, the  *)
(* auth gate, the per-user session store with its full-snapshot            *)
(* persistence, and the /send orchestrator with its rollback.              *)
(*                                                                         *)
(* A handler of the asyncio server runs without interruption up to its     *)
(* next `await`.  Only send_message awaits (model.ainvoke, line 293), so   *)
(* it is two steps: SendStart (lines 266-296, up to the await) and one of  *)
(* SendOk / SendMalformed / SendFail (what follows the await).  Every      *)
(* other handler is a single step.                                         *)
(*                                                                         *)
(* Python lists are objects: send_message keeps `messages`, a reference to *)
(* the session's list, across the await.  A request is `attached` while    *)
(* that list is still the one chat_history holds; `del sessions[sid]` and  *)
(* `chat_history[user] = {}` detach it, and from then on the request (and  *)
(* every request detached with it, field grp) works on the list `own`      *)
(* that the store no longer holds.                                         *)
(***************************************************************************)
EXTENDS Integers, Sequences, FiniteSets, TLC

\* ------------------------------------------------------------------ bounds
\* Number of /send calls started in one behaviour.
MaxCalls == 2
\* /send calls started in one behaviour of SpecAuth.
MaxAuthCalls == 1
\* Turns (a user message and its reply) that chat_history.json holds for
\* alice's session "s1" when the server of SpecCtx starts.
MaxPriorTurns == 3
\* Last clock value of SpecAuth.
MaxTime == 3
\* Tokens in clients' hands beyond which SpecAuth explores no further login.
MaxTokens == 3
\* Token lifetime in clock ticks; line 45 reads it from the environment
\* (default 720).
ACCESS_TOKEN_EXPIRE_MINUTES == 2

\* ------------------------------------------------------- program constants
JWT_SECRET == "dev_secret_change_me"
PASSWORD_SALT == "dev_salt_change_me"

\* ------------------------------------------------------------------ inputs
\* Strings are sequences of characters wherever the code looks inside them.
alice == <<"a">>
bob == <<"b">>
carol == <<"c">>
NoUser == <<>>

\* Usernames as clients send them to /auth/register and /auth/login.
RawUsernames == { <<"a">>, <<" ", "A">>, <<" ">> }
Passwords == { "p", "q", "" }
Sessions == { "s1", "s2" }
Texts == { <<"h", "i">> }

VARIABLES
    users,          \* users: username -> record                  (line 82)
    users_file,     \* contents of users.json                     (line 38)
    chat_history,   \* username -> session_id -> list of messages (line 85)
    chat_file,      \* contents of chat_history.json              (line 37)
    disk_ok,        \* whether open(path, "w") and json.dump succeed
    model,          \* the Gemini client, or "None"               (line 168)
    now,            \* datetime.utcnow()
    reqs,           \* the /send calls: call id -> request
    issued,         \* the tokens clients hold, each with its time of issue
    resp            \* the response of the handler that returned last

vars == << users, users_file, chat_history, chat_file, disk_ok, model, now,
           reqs, issued, resp >>

\* ----------------------------------------------------------------- strings
lower(c) ==
    CASE c = "A" -> "a"
      [] c = "B" -> "b"
      [] c = "C" -> "c"
      [] OTHER -> c

RECURSIVE lstrip(_)
lstrip(s) ==
    IF s # <<>> /\ Head(s) = " " THEN lstrip(Tail(s)) ELSE s

RECURSIVE rstrip(_)
rstrip(s) ==
    IF s # <<>> /\ s[Len(s)] = " " THEN rstrip(SubSeq(s, 1, Len(s) - 1)) ELSE s

\* user.username.strip()
normalize_NoLower(raw) ==
    rstrip(lstrip(raw))

\* user.username.strip().lower()
normalize(raw) ==
    LET t == rstrip(lstrip(raw))
    IN  [i \in 1..Len(t) |-> lower(t[i])]

\* --------------------------------------------------------------- storage
\* json.dump of `data` over the file holding `old`; an exception is printed
\* and swallowed, the file keeps what it held.
save_json_file(old, data, ok) ==
    IF ok THEN data ELSE old

\* ------------------------------------------------------------------ auth
\* SHA-256 of "salt:password", taken as injective.
hash_password(password) ==
    << "sha256", PASSWORD_SALT, ":", password >>

verify_password(plain, password_hash) ==
    hash_password(plain) = password_hash

\* A JWT: its payload and the key that signed it.  wellformed is FALSE for
\* a string that is no JWT at all.
Token(sub, exp, key) ==
    [wellformed |-> TRUE, sub |-> sub, exp |-> exp, key |-> key]

Garbage == [wellformed |-> FALSE, sub |-> NoUser, exp |-> 0, key |-> ""]

create_access_token(username, t) ==
    Token(username, t + ACCESS_TOKEN_EXPIRE_MINUTES, JWT_SECRET)

\* jwt.decode with a token still accepted at its expiry time.
decode_access_token_Late(token, t) ==
    IF ~token.wellformed \/ token.key # JWT_SECRET
    THEN [ok |-> FALSE, status |-> 401, detail |-> "Invalid token", sub |-> NoUser]
    ELSE IF token.exp < t
    THEN [ok |-> FALSE, status |-> 401, detail |-> "Token expired", sub |-> NoUser]
    ELSE [ok |-> TRUE, status |-> 200, detail |-> "", sub |-> token.sub]

\* jwt.decode checks the signature first, then exp (expired when exp <= now).
decode_access_token(token, t) ==
    IF ~token.wellformed \/ token.key # JWT_SECRET
    THEN [ok |-> FALSE, status |-> 401, detail |-> "Invalid token", sub |-> NoUser]
    ELSE IF token.exp <= t
    THEN [ok |-> FALSE, status |-> 401, detail |-> "Token expired", sub |-> NoUser]
    ELSE [ok |-> TRUE, status |-> 200, detail |-> "", sub |-> token.sub]

\* An Authorization header: absent, or "<scheme> <token>".
Header(scheme, token) == [present |-> TRUE, scheme |-> scheme, token |-> token]

NoHeader == [present |-> FALSE, scheme |-> "", token |-> Garbage]

lower_scheme(s) ==
    CASE s = "Bearer" -> "bearer"
      [] s = "Basic" -> "basic"
      [] OTHER -> s

\* get_current_username without its lookup in users.
get_current_username_NoUserCheck(authorization, us, t) ==
    IF ~authorization.present \/ lower_scheme(authorization.scheme) # "bearer"
    THEN [ok |-> FALSE, status |-> 401,
          detail |-> "Missing or invalid Authorization header", sub |-> NoUser]
    ELSE LET d == decode_access_token(authorization.token, t)
         IN  IF ~d.ok THEN d
             ELSE IF d.sub = NoUser
             THEN [ok |-> FALSE, status |-> 401,
                   detail |-> "Invalid token payload", sub |-> NoUser]
             ELSE d

\* Depends(get_current_username): the user a request is authenticated as,
\* or the 401 it is rejected with.
get_current_username(authorization, us, t) ==
    IF ~authorization.present \/ lower_scheme(authorization.scheme) # "bearer"
    THEN [ok |-> FALSE, status |-> 401,
          detail |-> "Missing or invalid Authorization header", sub |-> NoUser]
    ELSE LET d == decode_access_token(authorization.token, t)
         IN  IF ~d.ok THEN d
             ELSE IF d.sub = NoUser
             THEN [ok |-> FALSE, status |-> 401,
                   detail |-> "Invalid token payload", sub |-> NoUser]
             ELSE IF d.sub \notin DOMAIN us
             THEN [ok |-> FALSE, status |-> 401,
                   detail |-> "User not found", sub |-> NoUser]
             ELSE d

\* The header of a client that sends a token it holds.
TokenHeaders ==
    { Header("Bearer", i.token) : i \in issued }

\* What a client keeps of a token: the token, when it was issued, and by
\* which endpoint ("earlier": by a server run before this one).
Issued(token, at, by) == [token |-> token, at |-> at, by |-> by]

\* Other headers a client can send: none, another scheme, a string that is
\* no token, a token signed with another key.
BadHeaders ==
    { NoHeader,
      Header("Basic", Garbage),
      Header("Bearer", Garbage),
      Header("bearer", Token(alice, 1000, "another_key")) }

Headers ==
    BadHeaders \cup TokenHeaders

\* The session ids a client uses: alice's both, every other client's "s1".
SessionsOf(h) ==
    IF h.token.sub = alice THEN Sessions ELSE { "s1" }

\* --------------------------------------------------------- dictionaries
EmptyDict == [k \in {} |-> <<>>]

SetKey(d, k, v) == [x \in DOMAIN d \cup {k} |-> IF x = k THEN v ELSE d[x]]

DelKey(d, k) == [x \in DOMAIN d \ {k} |-> d[x]]

\* ------------------------------------------------ chat helpers (per-user)
\* A Python value with its type: a str, or (a provider's structured
\* content) a list.
Str(chars) == [type |-> "str", val |-> chars]

NonStr == [type |-> "list", val |-> <<>>]

\* A stored message.  call is not stored by the program: it names the
\* /send call that appended the message.
Message(role, content, timestamp, call) ==
    [role |-> role, content |-> content, timestamp |-> timestamp, call |-> call]

NoMessage == Message("", Str(<<>>), 0, 0)

\* chat_history.setdefault(username, {}), as the store it leaves.
get_user_sessions(ch, username) ==
    IF username \in DOMAIN ch THEN ch ELSE SetKey(ch, username, EmptyDict)

\* sessions.setdefault(session_id, []), as the store it leaves.
get_session_messages(ch, username, session_id) ==
    LET ch1 == get_user_sessions(ch, username)
    IN  IF session_id \in DOMAIN ch1[username] THEN ch1
        ELSE SetKey(ch1, username, SetKey(ch1[username], session_id, <<>>))

\* The lookup of a store keyed by session_id alone.
session_get_Shared(ch, username, session_id) ==
    IF \E u \in DOMAIN ch : session_id \in DOMAIN ch[u]
    THEN ch[CHOOSE u \in DOMAIN ch : session_id \in DOMAIN ch[u]][session_id]
    ELSE <<>>

\* sessions.get(session_id, [])
session_get(ch, username, session_id) ==
    IF username \in DOMAIN ch /\ session_id \in DOMAIN ch[username]
    THEN ch[username][session_id]
    ELSE <<>>

\* save_json_file(CHAT_HISTORY_FILE, chat_history)
save_chat(file, ch, ok) ==
    save_json_file(file, ch, ok)

\* messages[-4:] if len(messages) > 1 else []
context_messages_Last4(messages) ==
    IF Len(messages) > 1
    THEN SubSeq(messages, IF Len(messages) > 4 THEN Len(messages) - 3 ELSE 1,
                Len(messages))
    ELSE <<>>

\* messages[-5:] if len(messages) > 1 else []
context_messages(messages) ==
    IF Len(messages) > 1
    THEN SubSeq(messages, IF Len(messages) > 5 THEN Len(messages) - 4 ELSE 1,
                Len(messages))
    ELSE <<>>

\* A provider message: HumanMessage or AIMessage.
HumanMessage(content) == [type |-> "human", content |-> content]

AIMessage(content) == [type |-> "ai", content |-> content]

RECURSIVE conversation_context(_)
conversation_context(msgs) ==
    IF msgs = <<>> THEN <<>>
    ELSE LET m == Head(msgs)
             rest == conversation_context(Tail(msgs))
         IN  IF m.role = "user" THEN <<HumanMessage(m.content)>> \o rest
             ELSE IF m.role = "assistant" THEN <<AIMessage(m.content)>> \o rest
             ELSE rest

\* medical_prompt.format(user_message=...)
medical_prompt(user_message) ==
    Str(<<"MEDICAL_PROMPT_TEMPLATE">> \o user_message)

\* The except branch without its pop.
Rollback_NoPop(ch, username, session_id) ==
    get_user_sessions(ch, username)

\* The except branch of send_message: pop the last message of the session
\* the store holds now, when there is one.
Rollback(ch, username, session_id) ==
    LET ch1 == get_user_sessions(ch, username)
        sessions == ch1[username]
    IN  IF session_id \in DOMAIN sessions /\ sessions[session_id] # <<>>
        THEN SetKey(ch1, username,
                    SetKey(sessions, session_id,
                           SubSeq(sessions[session_id], 1,
                                  Len(sessions[session_id]) - 1)))
        ELSE ch1

\* ----------------------------------------------------------- /send calls
Awaiting(rq) == { c \in DOMAIN rq : rq[c].pc = "await" }

\* The calls whose `messages` is the list the store holds for the session.
AttachedTo(rq, username, session_id) ==
    { c \in Awaiting(rq) :
        rq[c].attached /\ rq[c].user = username /\ rq[c].sid = session_id }

Min(S) == CHOOSE x \in S : \A y \in S : x <= y

\* The store drops the lists of `sids` of `username`: the calls holding one
\* keep it, and those of one session share it.
Detach(rq, ch, username, sids) ==
    [c \in DOMAIN rq |->
        IF c \in Awaiting(rq) /\ rq[c].attached /\ rq[c].user = username
           /\ rq[c].sid \in sids
        THEN [rq[c] EXCEPT !.attached = FALSE,
                           !.own = ch[username][rq[c].sid],
                           !.grp = Min(AttachedTo(rq, username, rq[c].sid))]
        ELSE rq[c]]

\* A /send call awaiting the provider holds: user, sid, text (its
\* arguments), attached / grp / own (its list `messages`), context (what it
\* passed to model.ainvoke).  Not held by the program, kept for the
\* properties: umsg (the user message it appended), before (the session's
\* log when it was called), existed (whether the session had an entry then).
\* The call has returned: what is kept of it is who made it and how it ended.
Finished(r, outcome) ==
    [user |-> r.user, sid |-> r.sid, text |-> r.text, pc |-> "done",
     outcome |-> outcome, attached |-> FALSE, grp |-> 0, own |-> <<>>,
     context |-> <<>>, umsg |-> NoMessage, before |-> <<>>,
     existed |-> FALSE]

\* messages.append(m), on the list the call holds.
AppendOwn(rq, c, m) ==
    [d \in DOMAIN rq |->
        IF d \in Awaiting(rq) /\ ~rq[d].attached /\ rq[d].grp = rq[c].grp
        THEN [rq[d] EXCEPT !.own = Append(@, m)]
        ELSE rq[d]]

\* ------------------------------------------------------------- responses
Response(op, status, detail, user, sid, body) ==
    [op |-> op, status |-> status, detail |-> detail, user |-> user,
     sid |-> sid, body |-> body]

NoResponse == Response("", 0, "", NoUser, "", <<>>)

Unauthorized(op, a) == Response(op, a.status, a.detail, NoUser, "", <<>>)


chatVars == << chat_history, chat_file, reqs >>
authVars == << users, users_file, issued >>
envVars == << disk_ok, model, now >>

\* ------------------------------------------------------- auth endpoints
\* register without the `username in users` check of lines 243-244.
Register_Overwrite(raw, password) ==
    LET username == normalize(raw)
    IN  IF username = <<>> \/ password = ""
        THEN /\ resp' = Response("register", 400,
                                 "Username and password are required",
                                 NoUser, "", <<>>)
             /\ UNCHANGED << authVars, chatVars, envVars >>
        ELSE LET us == SetKey(users, username,
                              [username |-> username,
                               password_hash |-> hash_password(password),
                               created_at |-> now])
                 token == create_access_token(username, now)
             IN  /\ users' = us
                 /\ users_file' = save_json_file(users_file, us, disk_ok)
                 /\ issued' = issued \cup {Issued(token, now, "register")}
                 /\ resp' = Response("register", 200, "", username, "",
                                     <<token>>)
                 /\ UNCHANGED << chatVars, envVars >>

\* POST /auth/register
Register(raw, password) ==
    LET username == normalize(raw)
    IN  IF username = <<>> \/ password = ""
        THEN /\ resp' = Response("register", 400,
                                 "Username and password are required",
                                 NoUser, "", <<>>)
             /\ UNCHANGED << authVars, chatVars, envVars >>
        ELSE IF username \in DOMAIN users
        THEN /\ resp' = Response("register", 400, "Username already exists",
                                 NoUser, "", <<>>)
             /\ UNCHANGED << authVars, chatVars, envVars >>
        ELSE LET us == SetKey(users, username,
                              [username |-> username,
                               password_hash |-> hash_password(password),
                               created_at |-> now])
                 token == create_access_token(username, now)
             IN  /\ users' = us
                 /\ users_file' = save_json_file(users_file, us, disk_ok)
                 /\ issued' = issued \cup {Issued(token, now, "register")}
                 /\ resp' = Response("register", 200, "", username, "",
                                     <<token>>)
                 /\ UNCHANGED << chatVars, envVars >>

\* POST /auth/login
Login(raw, password) ==
    LET username == normalize(raw)
    IN  IF username \notin DOMAIN users
           \/ ~verify_password(password, users[username].password_hash)
        THEN /\ resp' = Response("login", 401, "Invalid credentials",
                                 NoUser, "", <<>>)
             /\ UNCHANGED << authVars, chatVars, envVars >>
        ELSE LET token == create_access_token(username, now)
             IN  /\ issued' = issued \cup {Issued(token, now, "login")}
                 /\ resp' = Response("login", 200, "", username, "", <<token>>)
                 /\ UNCHANGED << users, users_file, chatVars, envVars >>

\* ------------------------------------------------------- chat endpoints
\* send_message without the `if not model` check of lines 268-269.
SendStart_NoModelCheck(authorization, session_id, message) ==
    LET a == get_current_username(authorization, users, now)
    IN  IF ~a.ok
        THEN /\ resp' = Unauthorized("send", a)
             /\ UNCHANGED << authVars, chatVars, envVars >>
        ELSE LET ch1 == get_session_messages(chat_history, a.sub, session_id)
                 user_message == Message("user", Str(message), now,
                                         Len(reqs) + 1)
                 messages == Append(ch1[a.sub][session_id], user_message)
             IN  /\ Len(reqs) < MaxCalls
                 /\ chat_history' =
                        SetKey(ch1, a.sub,
                               SetKey(ch1[a.sub], session_id, messages))
                 /\ reqs' = Append(reqs,
                        [user |-> a.sub, sid |-> session_id, text |-> message,
                         pc |-> "await", outcome |-> "none",
                         attached |-> TRUE, grp |-> 0, own |-> <<>>,
                         context |->
                            conversation_context(context_messages(messages))
                            \o <<HumanMessage(medical_prompt(message))>>,
                         umsg |-> user_message,
                         before |-> session_get(chat_history, a.sub, session_id),
                         existed |-> a.sub \in DOMAIN chat_history
                                     /\ session_id \in DOMAIN chat_history[a.sub]])
                 /\ UNCHANGED << authVars, chat_file, envVars, resp >>

\* POST /send, lines 266-296: up to `await model.ainvoke(...)`.
SendStart(authorization, session_id, message) ==
    LET a == get_current_username(authorization, users, now)
    IN  IF ~a.ok
        THEN /\ resp' = Unauthorized("send", a)
             /\ UNCHANGED << authVars, chatVars, envVars >>
        ELSE IF model = "None"
        THEN /\ resp' = Response("send", 500, "AI service not available",
                                 a.sub, session_id, <<>>)
             /\ UNCHANGED << authVars, chatVars, envVars >>
        ELSE LET ch1 == get_session_messages(chat_history, a.sub, session_id)
                 user_message == Message("user", Str(message), now,
                                         Len(reqs) + 1)
                 messages == Append(ch1[a.sub][session_id], user_message)
             IN  /\ Len(reqs) < MaxCalls
                 /\ chat_history' =
                        SetKey(ch1, a.sub,
                               SetKey(ch1[a.sub], session_id, messages))
                 /\ reqs' = Append(reqs,
                        [user |-> a.sub, sid |-> session_id, text |-> message,
                         pc |-> "await", outcome |-> "none",
                         attached |-> TRUE, grp |-> 0, own |-> <<>>,
                         context |->
                            conversation_context(context_messages(messages))
                            \o <<HumanMessage(medical_prompt(message))>>,
                         umsg |-> user_message,
                         before |-> session_get(chat_history, a.sub, session_id),
                         existed |-> a.sub \in DOMAIN chat_history
                                     /\ session_id \in DOMAIN chat_history[a.sub]])
                 /\ UNCHANGED << authVars, chat_file, envVars, resp >>

\* Lines 298-303: messages.append(ai_message), on the list the call holds.
ReplyStore(c, ai) ==
    LET r == reqs[c]
    IN  IF r.attached
        THEN SetKey(chat_history, r.user,
                    SetKey(chat_history[r.user], r.sid,
                           Append(chat_history[r.user][r.sid], ai)))
        ELSE chat_history

ReplyReqs(c, ai) ==
    IF reqs[c].attached THEN reqs ELSE AppendOwn(reqs, c, ai)

ReplyMessages(c, ai) ==
    IF reqs[c].attached
    THEN ReplyStore(c, ai)[reqs[c].user][reqs[c].sid]
    ELSE ReplyReqs(c, ai)[c].own

\* POST /send, lines 298-306: the provider answered with a string.
SendOk(c) ==
    /\ c \in Awaiting(reqs)
    /\ LET r == reqs[c]
           ai == Message("assistant", Str(<<"o", "k">>), now, c)
       IN  /\ chat_history' = ReplyStore(c, ai)
           /\ chat_file' = save_chat(chat_file, ReplyStore(c, ai), disk_ok)
           /\ reqs' = [ReplyReqs(c, ai) EXCEPT ![c] = Finished(r, "ok")]
           /\ resp' = Response("send", 200, "", r.user, r.sid,
                               [response |-> ai.content,
                                history |-> ReplyMessages(c, ai)])
           /\ UNCHANGED << authVars, envVars >>

\* POST /send, lines 298-313: the provider answered with content that is
\* no string.  The reply is appended and saved, ChatResponse(...) rejects
\* it (line 306), and the except branch pops.
SendMalformed(c) ==
    /\ c \in Awaiting(reqs)
    /\ LET r == reqs[c]
           ai == Message("assistant", NonStr, now, c)
       IN  /\ chat_history' = Rollback(ReplyStore(c, ai), r.user, r.sid)
           /\ chat_file' = save_chat(chat_file, ReplyStore(c, ai), disk_ok)
           /\ reqs' = [ReplyReqs(c, ai) EXCEPT ![c] = Finished(r, "malformed")]
           /\ resp' = Response("send", 500, "Error processing message",
                               r.user, r.sid, <<>>)
           /\ UNCHANGED << authVars, envVars >>

\* POST /send, lines 308-313: model.ainvoke raised.
SendFail(c) ==
    /\ c \in Awaiting(reqs)
    /\ LET r == reqs[c]
       IN  /\ chat_history' = Rollback(chat_history, r.user, r.sid)
           /\ reqs' = [reqs EXCEPT ![c] = Finished(r, "error")]
           /\ resp' = Response("send", 500, "Error processing message",
                               r.user, r.sid, <<>>)
           /\ UNCHANGED << authVars, chat_file, envVars >>

\* ChatHistoryItem(**msg) accepts the message: content is a str.
IsHistoryItem(m) == m.content.type = "str"

\* The body of GET /history/{session_id}: sessions.get(session_id, []).
history_body(ch, username, session_id) ==
    session_get(get_user_sessions(ch, username), username, session_id)

\* get_chat_history raising 404 for a session the user does not have, as
\* clear_session does.
History_NotFound(authorization, session_id) ==
    LET a == get_current_username(authorization, users, now)
    IN  IF ~a.ok
        THEN /\ resp' = Unauthorized("history", a)
             /\ UNCHANGED << authVars, chatVars, envVars >>
        ELSE LET ch1 == get_user_sessions(chat_history, a.sub)
                 msgs == history_body(chat_history, a.sub, session_id)
             IN  /\ chat_history' = ch1
                 /\ resp' =
                      IF session_id \notin DOMAIN ch1[a.sub]
                      THEN Response("history", 404, "Session not found",
                                    a.sub, session_id, <<>>)
                      ELSE Response("history", 200, "", a.sub, session_id, msgs)
                 /\ UNCHANGED << authVars, chat_file, reqs, envVars >>

\* GET /history/{session_id}
History(authorization, session_id) ==
    LET a == get_current_username(authorization, users, now)
    IN  IF ~a.ok
        THEN /\ resp' = Unauthorized("history", a)
             /\ UNCHANGED << authVars, chatVars, envVars >>
        ELSE LET ch1 == get_user_sessions(chat_history, a.sub)
                 msgs == history_body(chat_history, a.sub, session_id)
             IN  /\ chat_history' = ch1
                 /\ resp' =
                      IF \A i \in 1..Len(msgs) : IsHistoryItem(msgs[i])
                      THEN Response("history", 200, "", a.sub, session_id, msgs)
                      ELSE Response("history", 500, "Internal Server Error",
                                    a.sub, session_id, <<>>)
                 /\ UNCHANGED << authVars, chat_file, reqs, envVars >>

\* messages[-1]["content"][:100] + "..."
Preview(content) ==
    SubSeq(content, 1, IF Len(content) > 100 THEN 100 ELSE Len(content))
        \o <<".", ".", ".">>

\* One entry of GET /sessions; None is <<>>, a value v is <<v>>.
SessionEntry(session_id, messages) ==
    [session_id |-> session_id,
     message_count |-> Len(messages),
     last_message |->
        IF messages # <<>> THEN <<messages[Len(messages)].timestamp>> ELSE <<>>,
     last_message_content |->
        IF messages # <<>>
        THEN <<Preview(messages[Len(messages)].content.val)>>
        ELSE <<>>]

\* The body of GET /sessions.
sessions_body(ch, username) ==
    LET sessions == get_user_sessions(ch, username)[username]
        out == [s \in DOMAIN sessions |-> SessionEntry(s, sessions[s])]
    IN  [total_sessions |-> Cardinality(DOMAIN out), sessions |-> out]

\* GET /sessions
ListSessions(authorization) ==
    LET a == get_current_username(authorization, users, now)
    IN  IF ~a.ok
        THEN /\ resp' = Unauthorized("sessions", a)
             /\ UNCHANGED << authVars, chatVars, envVars >>
        ELSE LET ch1 == get_user_sessions(chat_history, a.sub)
                 sessions == ch1[a.sub]
             IN  /\ chat_history' = ch1
                 /\ resp' =
                      IF \A s \in DOMAIN sessions :
                            sessions[s] # <<>> =>
                            sessions[s][Len(sessions[s])].content.type = "str"
                      THEN Response("sessions", 200, "", a.sub, "",
                                    sessions_body(chat_history, a.sub))
                      ELSE Response("sessions", 500, "Internal Server Error",
                                    a.sub, "", <<>>)
                 /\ UNCHANGED << authVars, chat_file, reqs, envVars >>

\* DELETE /sessions/{session_id}
DeleteSession(authorization, session_id) ==
    LET a == get_current_username(authorization, users, now)
    IN  IF ~a.ok
        THEN /\ resp' = Unauthorized("delete", a)
             /\ UNCHANGED << authVars, chatVars, envVars >>
        ELSE LET ch1 == get_user_sessions(chat_history, a.sub)
             IN  IF session_id \in DOMAIN ch1[a.sub]
                 THEN LET ch2 == SetKey(ch1, a.sub,
                                        DelKey(ch1[a.sub], session_id))
                      IN  /\ chat_history' = ch2
                          /\ chat_file' = save_chat(chat_file, ch2, disk_ok)
                          /\ reqs' = Detach(reqs, ch1, a.sub, {session_id})
                          /\ resp' = Response("delete", 200,
                                              "Session cleared successfully",
                                              a.sub, session_id, <<>>)
                          /\ UNCHANGED << authVars, envVars >>
                 ELSE /\ chat_history' = ch1
                      /\ resp' = Response("delete", 404, "Session not found",
                                          a.sub, session_id, <<>>)
                      /\ UNCHANGED << authVars, chat_file, reqs, envVars >>

\* clear_all_sessions emptying the whole store instead of the caller's key.
ClearAll_All(authorization) ==
    LET a == get_current_username(authorization, users, now)
    IN  IF ~a.ok
        THEN /\ resp' = Unauthorized("clear", a)
             /\ UNCHANGED << authVars, chatVars, envVars >>
        ELSE LET ch2 == SetKey(EmptyDict, a.sub, EmptyDict)
             IN  /\ chat_history' = ch2
                 /\ chat_file' = save_chat(chat_file, ch2, disk_ok)
                 /\ reqs' = [c \in DOMAIN reqs |->
                               IF c \in Awaiting(reqs) /\ reqs[c].attached
                               THEN [reqs[c] EXCEPT
                                       !.attached = FALSE,
                                       !.own = chat_history[reqs[c].user][reqs[c].sid],
                                       !.grp = Min(AttachedTo(reqs, reqs[c].user,
                                                              reqs[c].sid))]
                               ELSE reqs[c]]
                 /\ resp' = Response("clear", 200,
                                     "All sessions cleared successfully",
                                     a.sub, "", <<>>)
                 /\ UNCHANGED << authVars, envVars >>

\* DELETE /sessions
ClearAll(authorization) ==
    LET a == get_current_username(authorization, users, now)
    IN  IF ~a.ok
        THEN /\ resp' = Unauthorized("clear", a)
             /\ UNCHANGED << authVars, chatVars, envVars >>
        ELSE LET ch2 == SetKey(chat_history, a.sub, EmptyDict)
             IN  /\ chat_history' = ch2
                 /\ chat_file' = save_chat(chat_file, ch2, disk_ok)
                 /\ reqs' = Detach(reqs, chat_history, a.sub, Sessions)
                 /\ resp' = Response("clear", 200,
                                     "All sessions cleared successfully",
                                     a.sub, "", <<>>)
                 /\ UNCHANGED << authVars, envVars >>

\* The clock advances.
Tick ==
    /\ now < MaxTime
    /\ now' = now + 1
    /\ UNCHANGED << authVars, chatVars, disk_ok, model, resp >>

\* ------------------------------------------------------- specifications
\* A token an earlier run issued to `username` at time t.
IssuedAt(username, t) ==
    Issued(create_access_token(username, t), t, "earlier")

\* A stored user record, as users.json holds it.
UserRecord(username, password, created_at) ==
    [username |-> username, password_hash |-> hash_password(password),
     created_at |-> created_at]

\* The server starts with users.json holding alice and bob, registered by
\* an earlier run, no chat_history.json, and each client holding a token
\* issued one tick ago.
Init ==
    /\ users = SetKey(SetKey(EmptyDict, alice, UserRecord(alice, "p", 0)),
                      bob, UserRecord(bob, "q", 0))
    /\ users_file = users
    /\ chat_history = EmptyDict
    /\ chat_file = EmptyDict
    /\ disk_ok = TRUE
    /\ model \in { "gemini-1.5-flash", "None" }
    /\ now = ACCESS_TOKEN_EXPIRE_MINUTES
    /\ reqs = <<>>
    /\ issued = { IssuedAt(alice, ACCESS_TOKEN_EXPIRE_MINUTES - 1),
                  IssuedAt(bob, ACCESS_TOKEN_EXPIRE_MINUTES - 1) }
    /\ resp = NoResponse

Next ==
    \/ \E h \in TokenHeaders : \E s \in SessionsOf(h), m \in Texts : SendStart(h, s, m)
    \/ \E c \in DOMAIN reqs : SendOk(c)
    \/ \E c \in DOMAIN reqs : SendMalformed(c)
    \/ \E c \in DOMAIN reqs : SendFail(c)
    \/ \E h \in TokenHeaders : \E s \in SessionsOf(h) : History(h, s)
    \/ \E h \in TokenHeaders : ListSessions(h)
    \/ \E h \in TokenHeaders : \E s \in SessionsOf(h) : DeleteSession(h, s)
    \/ \E h \in TokenHeaders : ClearAll(h)

Spec == Init /\ [][Next]_vars

\* The server starts with no file at all; a client still holds a token that
\* an earlier deployment signed for carol, who is not in users.json.
InitAuth ==
    /\ users = EmptyDict
    /\ users_file = EmptyDict
    /\ chat_history = EmptyDict
    /\ chat_file = EmptyDict
    /\ disk_ok = TRUE
    /\ model = "gemini-1.5-flash"
    /\ now = 0
    /\ reqs = <<>>
    /\ issued = { IssuedAt(carol, 0) }
    /\ resp = NoResponse

NextAuth ==
    \/ \E u \in RawUsernames, p \in Passwords : Register(u, p)
    \/ /\ Cardinality(issued) < MaxTokens
       /\ \E u \in RawUsernames, p \in Passwords : Login(u, p)
    \/ Tick
    \/ /\ Len(reqs) < MaxAuthCalls
       /\ \E h \in Headers, s \in Sessions, m \in Texts : SendStart(h, s, m)
    \/ \E c \in DOMAIN reqs : SendOk(c)
    \/ \E c \in DOMAIN reqs : SendMalformed(c)
    \/ \E c \in DOMAIN reqs : SendFail(c)
    \/ \E h \in Headers, s \in Sessions : History(h, s)
    \/ \E h \in Headers : ListSessions(h)
    \/ \E h \in Headers, s \in Sessions : DeleteSession(h, s)
    \/ \E h \in Headers : ClearAll(h)

SpecAuth == InitAuth /\ [][NextAuth]_vars

\* The first n messages of a conversation an earlier run saved: user
\* messages and replies in turn, written at times 1, 2, ...
RECURSIVE PriorLog(_)
PriorLog(n) ==
    IF n = 0 THEN <<>>
    ELSE Append(PriorLog(n - 1),
                IF n % 2 = 1
                THEN Message("user", Str(<<"h", "i">>), n, 0)
                ELSE Message("assistant", Str(<<"o", "k">>), n, 0))

\* The server starts with chat_history.json holding up to MaxPriorTurns
\* turns of alice's session "s1".
InitCtx ==
    /\ users = SetKey(EmptyDict, alice, UserRecord(alice, "p", 0))
    /\ users_file = users
    /\ \E k \in 0..MaxPriorTurns :
          chat_history =
             IF k = 0 THEN EmptyDict
             ELSE SetKey(EmptyDict, alice,
                         SetKey(EmptyDict, "s1", PriorLog(2 * k)))
    /\ chat_file = chat_history
    /\ disk_ok = TRUE
    /\ model = "gemini-1.5-flash"
    /\ now = 2 * MaxPriorTurns + 1
    /\ reqs = <<>>
    /\ issued = { IssuedAt(alice, 2 * MaxPriorTurns) }
    /\ resp = NoResponse

SpecCtx == InitCtx /\ [][Next]_vars

\* open(path, "w") or json.dump starts to fail (disk full, file made
\* read-only), or works again.
StorageChange ==
    /\ disk_ok' = ~disk_ok
    /\ UNCHANGED << authVars, chatVars, model, now, resp >>

\* The server of InitAuth on a disk that can fail at any time; the clients
\* send the tokens they hold.
NextDisk ==
    \/ StorageChange
    \/ \E u \in RawUsernames, p \in Passwords : Register(u, p)
    \/ /\ Cardinality(issued) < MaxTokens
       /\ \E u \in RawUsernames, p \in Passwords : Login(u, p)
    \/ /\ Len(reqs) < MaxAuthCalls
       /\ \E h \in TokenHeaders, s \in Sessions, m \in Texts : SendStart(h, s, m)
    \/ \E c \in DOMAIN reqs : SendOk(c)
    \/ \E c \in DOMAIN reqs : SendMalformed(c)
    \/ \E c \in DOMAIN reqs : SendFail(c)
    \/ \E h \in TokenHeaders, s \in Sessions : History(h, s)
    \/ \E h \in TokenHeaders : ListSessions(h)
    \/ \E h \in TokenHeaders, s \in Sessions : DeleteSession(h, s)
    \/ \E h \in TokenHeaders : ClearAll(h)

SpecDisk == InitAuth /\ [][NextDisk]_vars

\* ------------------------------------------------------------ properties
\* The /send call c returns in this step, with the given outcome.
Returns(c, outcome) ==
    /\ c \in Awaiting(reqs)
    /\ reqs'[c].pc = "done"
    /\ reqs'[c].outcome = outcome

\* No other operation has a net effect on the session of call c while c
\* awaits the provider: the store holds the list c holds, and it is the log
\* c found with c's user message appended.
Undisturbed(c) ==
    /\ reqs[c].attached
    /\ session_get(chat_history, reqs[c].user, reqs[c].sid)
          = Append(reqs[c].before, reqs[c].umsg)

\* How a /send call ended; messages an earlier run saved carry call 0.
Outcome(call) ==
    IF call \in DOMAIN reqs THEN reqs[call].outcome ELSE "earlier"

C2_NoFailedSendOnDisk ==
    \A u \in DOMAIN chat_file :
       \A s \in DOMAIN chat_file[u] :
          \A i \in 1..Len(chat_file[u][s]) :
             chat_file[u][s][i].role = "user" =>
                Outcome(chat_file[u][s][i].call) # "error"

\* What user b reads: the body of GET /history of every session id, and
\* the body of GET /sessions.
View(b) ==
    [history |-> [s \in Sessions |-> history_body(chat_history, b, s)],
     sessions |-> sessions_body(chat_history, b)]

\* The user the handler of this step runs as: the one whose /send call
\* starts, or the one the response goes to.
StepUser ==
    IF Len(reqs') > Len(reqs) THEN reqs'[Len(reqs')].user ELSE resp'.user

\* Every message b reads was appended by a send authenticated as b.
ReadsOwnOnly(b) ==
    \A s \in Sessions :
       \A i \in 1..Len(View(b).history[s]) :
          reqs[View(b).history[s][i].call].user = b

\* C3: a step of a handler authenticated as another user leaves what user
\* b reads through /history and /sessions unchanged, and b reads only
\* messages appended by sends authenticated as b, also when both users use
\* one session id.
C3_SessionIsolation ==
    /\ [](\A b \in DOMAIN users : ReadsOwnOnly(b))
    /\ [][\A b \in DOMAIN users \ {StepUser} : View(b)' = View(b)]_vars

\* bob reads his empty session "s1" while alice's session "s1" holds a
\* committed turn.
C3_Witness ==
    /\ resp.op = "history" /\ resp.status = 200
    /\ resp.user = bob /\ resp.sid = "s1" /\ resp.body = <<>>
    /\ Len(session_get(chat_history, alice, "s1")) = 2

\* C4: a message list read through /history holds committed turns only:
\* every assistant message directly follows the user message of its own
\* send, and every user message is of a send that returned success.
C4_ReadsCommittedTurnsOnly ==
    (resp.op = "history" /\ resp.status = 200) =>
       \A i \in 1..Len(resp.body) :
          /\ resp.body[i].role = "assistant" =>
                /\ i > 1
                /\ resp.body[i - 1].role = "user"
                /\ resp.body[i - 1].call = resp.body[i].call
          /\ resp.body[i].role = "user" => Outcome(resp.body[i].call) = "ok"

\* The provider message a stored message is replayed as.
AsProvider(m) ==
    IF m.role = "user" THEN HumanMessage(m.content) ELSE AIMessage(m.content)

C6_FailedSendCreatesNoSession ==
    [][\A c \in DOMAIN reqs :
          (Returns(c, "error") /\ Undisturbed(c) /\ ~reqs[c].existed) =>
             reqs[c].sid \notin
                DOMAIN sessions_body(chat_history', reqs[c].user).sessions]_vars

\* The header is one the auth gate is to reject: absent, not of the Bearer
\* scheme, no valid token, an expired token, or a token of no registered
\* user.
Rejected(h) ==
    \/ ~h.present
    \/ h.scheme \notin { "Bearer", "bearer" }
    \/ ~h.token.wellformed
    \/ h.token.key # JWT_SECRET
    \/ h.token.exp <= now
    \/ h.token.sub \notin DOMAIN users

\* The step answers 401, changes no store and starts no provider call.
Denied ==
    /\ resp'.status = 401
    /\ UNCHANGED << users, users_file, chat_history, chat_file, reqs, issued >>

SameName(x, y) ==
    LET a == rstrip(lstrip(x))
        b == rstrip(lstrip(y))
    IN  /\ Len(a) = Len(b)
        /\ \A i \in 1..Len(a) : lower(a[i]) = lower(b[i])

\* C8: a register whose username is, up to case and surrounding blanks, a
\* registered one answers 400, issues no token and leaves the stored record
\* as it is; with a password given, the answer is "Username already exists".
C8_DuplicateRejected ==
    [][\A raw \in RawUsernames, p \in Passwords :
          (Register(raw, p) /\ \E u \in DOMAIN users : SameName(raw, u)) =>
             /\ resp'.status = 400
             /\ p # "" => resp'.detail = "Username already exists"
             /\ resp'.body = <<>>
             /\ UNCHANGED << users, users_file, issued >>]_vars

\* alice, registered with password "p", is registered again and refused.
C8_Witness ==
    /\ resp.op = "register" /\ resp.status = 400
    /\ resp.detail = "Username already exists"
    /\ alice \in DOMAIN users
    /\ users[alice].password_hash = hash_password("p")
    /\ users_file = users

\* C9: a token that register or login issued for U at time t verifies to U
\* at every time before t + TTL and is refused as expired from t + TTL on,
\* whatever operations ran in between.
C9_TokenRoundTrip ==
    \A i \in issued :
       i.by \in { "register", "login" } =>
          LET v == get_current_username(Header("Bearer", i.token), users, now)
          IN  IF now < i.at + ACCESS_TOKEN_EXPIRE_MINUTES
              THEN v.ok /\ v.sub = i.token.sub
              ELSE ~v.ok /\ v.status = 401 /\ v.detail = "Token expired"

\* A token issued by login reaches its expiry time after its holder
\* cleared all sessions.
C9_Witness ==
    /\ \E i \in issued :
          i.by = "login" /\ now = i.at + ACCESS_TOKEN_EXPIRE_MINUTES
    /\ \E c \in DOMAIN reqs : reqs[c].outcome = "ok"
    /\ \A u \in DOMAIN chat_history : DOMAIN chat_history[u] = {}

\* The sessions the store or the file holds for a user.
SessionsIn(store, u) ==
    IF u \in DOMAIN store THEN store[u] ELSE EmptyDict

\* C10: deleteSession on a session the user does not have answers 404 and
\* changes no session, no file and no call; on one the user has, it answers
\* 200, removes that session and no other from the store and from
\* chat_history.json, leaves every other session's log as it is in both,
\* and history of the session is then empty.
C10_DeleteSession ==
    [][\A h \in Headers, s \in Sessions :
          LET a == get_current_username(h, users, now)
              u == a.sub
              old == SessionsIn(chat_history, u)
          IN  (a.ok /\ DeleteSession(h, s)) =>
                 IF s \notin DOMAIN old
                 THEN /\ resp'.status = 404
                      /\ \A v \in DOMAIN users :
                            SessionsIn(chat_history', v)
                               = SessionsIn(chat_history, v)
                      /\ chat_file' = chat_file
                      /\ reqs' = reqs
                 ELSE /\ resp'.status = 200
                      /\ SessionsIn(chat_history', u)
                            = [x \in DOMAIN old \ {s} |-> old[x]]
                      /\ \A v \in DOMAIN users \ {u} :
                            SessionsIn(chat_history', v)
                               = SessionsIn(chat_history, v)
                      /\ s \notin DOMAIN SessionsIn(chat_file', u)
                      /\ \A v \in DOMAIN users :
                            LET f == SessionsIn(chat_file, v)
                                keep == DOMAIN f \ (IF v = u THEN {s} ELSE {})
                            IN  SessionsIn(chat_file', v)
                                   = [x \in keep |-> f[x]]
                      /\ history_body(chat_history', u, s) = <<>>]_vars

\* The user has an entry in the store, it holds no session, and the file
\* holds what the store holds: the state a clearAll of the user leaves.
Cleared(u) ==
    /\ u \in DOMAIN chat_history
    /\ chat_history[u] = EmptyDict
    /\ chat_file = chat_history

\* C11: clearAll by an authenticated user answers 200, leaves the caller
\* with no session in the store and in the file, leaves the sessions of
\* every other user in the store as they are, and called in the state a
\* clearAll of the same user leaves (also one reached from no sessions at
\* all) it changes neither the store, nor the file, nor any call.
C11_ClearAll ==
    [][\A h \in Headers :
          LET a == get_current_username(h, users, now)
              u == a.sub
          IN  (a.ok /\ ClearAll(h)) =>
                 /\ resp'.status = 200
                 /\ Cleared(u)'
                 /\ sessions_body(chat_history', u).total_sessions = 0
                 /\ \A v \in DOMAIN users \ {u} :
                       SessionsIn(chat_history', v) = SessionsIn(chat_history, v)
                 /\ Cleared(u) => UNCHANGED chatVars]_vars

\* alice cleared her sessions, one of which held a committed turn, while
\* bob's session holds his turn.
C11_Witness ==
    /\ resp.op = "clear" /\ resp.status = 200 /\ resp.user = alice
    /\ Cleared(alice)
    /\ Len(reqs) = 2
    /\ reqs[1].user = alice /\ reqs[1].outcome = "ok"
    /\ reqs[2].user = bob /\ reqs[2].outcome = "ok"
    /\ Len(session_get(chat_history, bob, "s1")) = 2

\* One list is the other cut off at its end.
TailChange(old, new) ==
    LET n == IF Len(old) < Len(new) THEN Len(old) ELSE Len(new)
    IN  SubSeq(old, 1, n) = SubSeq(new, 1, n)

\* C12: history of a session the user does not have, never written or
\* deleted, answers 200 with the empty list; history of a session the user
\* has answers 200 with the stored messages, first appended first: the
\* handlers change a stored list at its end only, by appending or removing
\* there, or drop it whole.
C12_History ==
    /\ [][\A h \in Headers, s \in Sessions :
             LET a == get_current_username(h, users, now)
                 stored == SessionsIn(chat_history, a.sub)
             IN  (a.ok /\ resp'.op = "history" /\ History(h, s)) =>
                    /\ resp'.status = 200
                    /\ resp'.body = IF s \in DOMAIN stored THEN stored[s]
                                    ELSE <<>>]_vars
    /\ [][chat_history' # chat_history =>
             \A u \in DOMAIN users, s \in Sessions :
                TailChange(session_get(chat_history, u, s),
                           session_get(chat_history', u, s))]_vars

\* alice reads the session "s1" she deleted after a committed turn, and
\* gets the empty list.
C12_Witness ==
    /\ resp.op = "history" /\ resp.status = 200 /\ resp.body = <<>>
    /\ resp.user = alice /\ resp.sid = "s1"
    /\ Len(reqs) >= 1
    /\ reqs[1].user = alice /\ reqs[1].sid = "s1" /\ reqs[1].outcome = "ok"
    /\ "s1" \notin DOMAIN SessionsIn(chat_history, alice)

\* C13: when initialize_gemini_model returned None, the model stays None,
\* the provider is never called, and every authenticated send answers 500
\* "AI service not available" and changes neither the user store, nor the
\* session store (no session and no user entry is created, no message
\* appended), nor either file.
C13_ServiceUnavailable ==
    /\ [](model = "None" => reqs = <<>>)
    /\ [][model = "None" =>
             /\ model' = "None"
             /\ \A h \in Headers, s \in Sessions, m \in Texts :
                   (get_current_username(h, users, now).ok
                       /\ SendStart(h, s, m)) =>
                      /\ resp'.status = 500
                      /\ resp'.detail = "AI service not available"
                      /\ UNCHANGED << users, users_file, chat_history,
                                      chat_file, reqs >>]_vars

\* alice's send was refused for want of a model; she has no session.
C13_Witness ==
    /\ model = "None"
    /\ resp.op = "send" /\ resp.status = 500
    /\ resp.detail = "AI service not available"
    /\ resp.user = alice /\ resp.sid = "s1"
    /\ SessionsIn(chat_history, alice) = EmptyDict

\* C14: in the body of listSessions, last_message_content of a session is
\* null when the session has no message, and otherwise the content of its
\* last message, unchanged up to 100 characters, and cut to 100 characters
\* with the truncation marker appended only beyond that.
C14_Preview ==
    [][\A h \in Headers :
          LET a == get_current_username(h, users, now)
              stored == SessionsIn(chat_history, a.sub)
          IN  (a.ok /\ ListSessions(h) /\ resp'.status = 200) =>
                 \A s \in DOMAIN stored :
                    LET msgs == stored[s]
                        content == msgs[Len(msgs)].content.val
                        shown == resp'.body.sessions[s].last_message_content
                    IN  IF msgs = <<>> THEN shown = <<>>
                        ELSE IF Len(content) <= 100 THEN shown = <<content>>
                        ELSE shown = <<SubSeq(content, 1, 100)
                                          \o <<".", ".", ".">>>>]_vars

\* The messages of a list.
Range(seq) == { seq[i] : i \in 1..Len(seq) }

\* C15: when the provider call of a send fails, the step in which the call
\* returns removes from the session the user message this call appended,
\* and keeps every message another call appended, in flight or completed.
C15_RollbackRemovesOwnMessage ==
    [][\A c \in DOMAIN reqs :
          Returns(c, "error") =>
             LET old == session_get(chat_history, reqs[c].user, reqs[c].sid)
                 new == session_get(chat_history', reqs[c].user, reqs[c].sid)
             IN  /\ reqs[c].umsg \notin Range(new)
                 /\ \A i \in 1..Len(old) :
                       old[i].call # c => old[i] \in Range(new)]_vars

\* The list ends with the user message of call c and the reply to it.
EndsWithTurn(log, c, umsg) ==
    /\ Len(log) >= 2
    /\ log[Len(log) - 1] = umsg
    /\ log[Len(log)].role = "assistant"
    /\ log[Len(log)].call = c

\* C16: when a send returns success, the log of its session in the store
\* and in chat_history.json ends with the user message of the call followed
\* by its reply, and the history in the response is the stored log.
C16_SuccessIsStored ==
    [][\A c \in DOMAIN reqs :
          Returns(c, "ok") =>
             LET u == reqs[c].user
                 s == reqs[c].sid
             IN  /\ EndsWithTurn(session_get(chat_history', u, s), c,
                                 reqs[c].umsg)
                 /\ EndsWithTurn(session_get(chat_file', u, s), c,
                                 reqs[c].umsg)
                 /\ resp'.body.history = session_get(chat_history', u, s)]_vars

\* The session the handler of this step works on: the one of the /send
\* call that starts, or the one the response is about ("" when the handler
\* takes no session id).
StepSession ==
    IF Len(reqs') > Len(reqs) THEN reqs'[Len(reqs')].sid ELSE resp'.sid

\* The handler of this step works on session s of user v: it runs as v, and
\* it is clearAll or takes s as its session id.
StepTouches(v, s) ==
    /\ StepUser = v
    /\ \/ Len(reqs') = Len(reqs) /\ resp'.op = "clear"
       \/ StepSession = s

\* C17: a step of a handler leaves the log of every session it does not
\* work on as it is, in the store and in chat_history.json: send, history
\* and deleteSession work on the one session of the caller they name,
\* clearAll on the sessions of its caller.
C17_Independence ==
    [][\A v \in DOMAIN users, s \in Sessions :
          ~StepTouches(v, s) =>
             /\ session_get(chat_history', v, s) = session_get(chat_history, v, s)
             /\ session_get(chat_file', v, s) = session_get(chat_file, v, s)]_vars

\* C18: register, a send that succeeds, deleteSession and clearAll answer
\* success only with their effect on disk: when they return 200 the file
\* they save holds what the store holds, also when the disk fails.
C18_DurableBeforeReturn ==
    [][/\ \A raw \in RawUsernames, p \in Passwords :
             (Register(raw, p) /\ resp'.status = 200) => users_file' = users'
       /\ \A c \in DOMAIN reqs :
             Returns(c, "ok") => chat_file' = chat_history'
       /\ \A h \in TokenHeaders :
             /\ (ClearAll(h) /\ resp'.status = 200) =>
                   chat_file' = chat_history'
             /\ \A s \in Sessions :
                   (DeleteSession(h, s) /\ resp'.status = 200) =>
                      chat_file' = chat_history']_vars

\* C19: every step keeps every user record as it is, in the store and in
\* users.json, so the registered usernames only grow; and login changes
\* neither the user store, nor the session store, nor a file, nor a call.
C19_UserRecordsWriteOnce ==
    [][/\ \A u \in DOMAIN users :
             u \in DOMAIN users' /\ users'[u] = users[u]
       /\ \A u \in DOMAIN users_file :
             u \in DOMAIN users_file' /\ users_file'[u] = users_file[u]
       /\ \A raw \in RawUsernames, p \in Passwords :
             Login(raw, p) =>
                UNCHANGED << users, users_file, chat_history, chat_file,
                             reqs >>]_vars

\* alice, registered at time 0 with password "p", logged in later with a
\* completed send behind her; her record is the one register wrote.
C19_Witness ==
    /\ alice \in DOMAIN users
    /\ users[alice] = UserRecord(alice, "p", 0)
    /\ users_file = users
    /\ now > 0
    /\ resp.op = "login" /\ resp.status = 200 /\ resp.user = alice
    /\ \E c \in DOMAIN reqs : reqs[c].user = alice /\ reqs[c].outcome = "ok"

\* C20: when a send fails after its user message was appended, by the
\* provider raising or by its answer being rejected once the reply is
\* appended, the step in which the call returns takes at most one message
\* from the session, takes no assistant message, and leaves the session
\* without the user message of the call.
C20_FailurePathRemovesUserMessage ==
    [][\A c \in DOMAIN reqs :
          (Returns(c, "error") \/ Returns(c, "malformed")) =>
             LET old == session_get(chat_history, reqs[c].user, reqs[c].sid)
                 new == session_get(chat_history', reqs[c].user, reqs[c].sid)
             IN  /\ Len(new) >= Len(old) - 1
                 /\ \A i \in 1..Len(old) :
                       old[i].role = "assistant" => old[i] \in Range(new)
                 /\ reqs[c].umsg \notin Range(new)]_vars

====
